---- MODULE Spec2Model ----
(***************************************************************************)
(* Model of the periodic real-time schedulability tool:                    *)
(*   model.py       Task and Job records                                   *)
(*   analysis.py    exact worst-case response time (fixed-point) and the   *)
(*                  rate-monotonic response-time analysis                  *)
(*   simulation.py  the tick-by-tick Scheduler (RM / DM / EDF)             *)
(*   main.py        the order of the calls (lines 124-162): the analysis   *)
(*                  first, then one Scheduler per algorithm built from the *)
(*                  same task list                                         *)
(*                                                                         *)
(* The model is that of a caller who holds a list of Task objects and      *)
(* calls perform_rm_analysis and Scheduler on it directly.  It is not a    *)
(* model of main's own start: load_tasks_from_csv (main.py lines 20-48)    *)
(* builds Task without its required field name and raises TypeError on     *)
(* every row, and on the empty list main returns at line 107 before any    *)
(* call.                                                                   *)
(*                                                                         *)
(* Python's None is modelled as the empty sequence and a present value v   *)
(* as <<v>>, wherever the code holds "a value or None" (current_job, the   *)
(* task id of a trace entry, the duration argument of run, response_time). *)
(* The fields -1 of start_time / finish_time are the code's own sentinel.  *)
(***************************************************************************)
EXTENDS Integers, Sequences, FiniteSets

\* ------------------------------------------------------------------ bounds
MaxWcet == 2
MaxPeriod == 3
MaxDuration == 3
\* Periods and relative deadlines of the task lists of the EDF runs.
MaxEdfPeriod == 4
\* Periods of the task lists of the hyperperiod runs.
MaxHyperPeriod == 6

\* Task ids and input priorities the task lists are drawn from.
TaskIds == {1, 2}
Priorities == {0, 1}
Algorithms == {"RM", "DM", "EDF"}

None == << >>
Some(v) == << v >>

\* ------------------------------------------------------------ model.py
\* Task: the fields name and bcet are carried by the dataclass but read by
\* neither the analysis nor the scheduler; they are left out of the record.
Task(id, wcet, period, deadline, priority) ==
    [id |-> id, wcet |-> wcet, period |-> period,
     deadline |-> deadline, priority |-> priority]

Job(task_id, job_id, arrival_time, absolute_deadline, remaining_time) ==
    [task_id |-> task_id, job_id |-> job_id, arrival_time |-> arrival_time,
     absolute_deadline |-> absolute_deadline,
     remaining_time |-> remaining_time,
     start_time |-> -1, finish_time |-> -1]

response_time(j) ==
    IF j.finish_time = -1 THEN None
    ELSE Some(j.finish_time - j.arrival_time)

\* Mutant: a job that finishes exactly at its deadline counts as missed.
is_missedAtDeadline(j) ==
    IF j.finish_time = -1 THEN FALSE
    ELSE j.finish_time >= j.absolute_deadline

is_missed(j) ==
    IF j.finish_time = -1 THEN FALSE
    ELSE j.finish_time > j.absolute_deadline

\* ------------------------------------------------------------ inputs
Tasks ==
    [id : TaskIds, wcet : 1..MaxWcet, period : 1..MaxPeriod,
     deadline : 1..MaxPeriod, priority : Priorities]

\* The lists of Task objects handed to perform_rm_analysis(tasks) and to
\* Scheduler(tasks, algorithm): any order, the empty list included.  The
\* ids are unique, which the functions assume and do not check.
TaskSets ==
    UNION { { ts \in [1..n -> Tasks] :
                \A i, j \in 1..n : i # j => ts[i].id # ts[j].id } :
            n \in 0..Cardinality(TaskIds) }

\* ------------------------------------------------------------ helpers
RECURSIVE Gcd(_, _)
Gcd(a, b) == IF b = 0 THEN a ELSE Gcd(b, a % b)

Lcm(a, b) == (a * b) \div Gcd(a, b)

RECURSIVE LcmOf(_)
LcmOf(periods) ==
    IF periods = << >> THEN 1
    ELSE Lcm(Head(periods), LcmOf(Tail(periods)))

\* Python's < on tuples of integers of one length (sort keys).
RECURSIVE KeyLess(_, _)
KeyLess(a, b) ==
    IF a = << >> THEN FALSE
    ELSE a[1] < b[1] \/ (a[1] = b[1] /\ KeyLess(Tail(a), Tail(b)))

\* sorted(seq, key=...) / list.sort(key=...): a stable sort; keys[i] is the
\* key of s[i].  An element's place is the number of elements that sort
\* before it: those with a smaller key, and those with an equal key that
\* stand earlier in the input.
StableSort(s, keys) ==
    LET Before(j, i) ==
            KeyLess(keys[j], keys[i]) \/ (keys[j] = keys[i] /\ j < i)
        Place(i) == 1 + Cardinality({ j \in 1..Len(s) : Before(j, i) })
    IN  [ k \in 1..Len(s) |-> s[CHOOSE i \in 1..Len(s) : Place(i) = k] ]

RECURSIVE SumSeq(_)
SumSeq(s) == IF s = << >> THEN 0 ELSE Head(s) + SumSeq(Tail(s))

RECURSIVE MaxSeq(_)
MaxSeq(s) ==
    IF Len(s) = 1 THEN s[1]
    ELSE LET m == MaxSeq(Tail(s)) IN IF s[1] >= m THEN s[1] ELSE m

\* ------------------------------------------------------------ analysis.py
\* Mutant: the quotient is rounded down.
CeilFloor(a, b) == a \div b

\* math.ceil(R_curr / period) for positive integers.
Ceil(a, b) == (a + b - 1) \div b

\* The inner for-loop of calculate_exact_wcrt_rm: the interference of the
\* higher-priority tasks within a window of length R_curr.
RECURSIVE Interference(_, _)
Interference(R_curr, higher_priority_tasks) ==
    IF higher_priority_tasks = << >> THEN 0
    ELSE Ceil(R_curr, Head(higher_priority_tasks).period)
             * Head(higher_priority_tasks).wcet
         + Interference(R_curr, Tail(higher_priority_tasks))

\* Mutant: the task's own execution time is left out of the candidate.
R_nextNoWcet(task, higher_priority_tasks, R_curr) ==
    Interference(R_curr, higher_priority_tasks)

\* One pass of the while-loop body: the next candidate.
R_next(task, higher_priority_tasks, R_curr) ==
    task.wcet + Interference(R_curr, higher_priority_tasks)

\* The while-loop from the candidate R_curr on.
RECURSIVE WcrtFrom(_, _, _)
WcrtFrom(task, higher_priority_tasks, R_curr) ==
    LET R_new == R_next(task, higher_priority_tasks, R_curr)
    IN  IF R_new > task.deadline THEN R_new
        ELSE IF R_new = R_curr THEN R_new
        ELSE WcrtFrom(task, higher_priority_tasks, R_new)

calculate_exact_wcrt_rm(task, higher_priority_tasks) ==
    WcrtFrom(task, higher_priority_tasks, task.wcet)

\* Scheduler.__init__, line 27: key=lambda t: t.deadline
DmKey(x) == << x.deadline >>

\* tasks.sort(key=lambda t: t.deadline)
SortedDm(ts) == StableSort(ts, [ i \in 1..Len(ts) |-> DmKey(ts[i]) ])

\* key=lambda x: (x.period, x.id)
RmKey(x) == << x.period, x.id >>

\* sorted(tasks, key=lambda x: (x.period, x.id))
SortedRm(ts) == StableSort(ts, [ i \in 1..Len(ts) |-> RmKey(ts[i]) ])

\* The record of one task; the display label "Task <id>" is left out.
RmRecord(task, wcrt) ==
    [Period |-> task.period, WCET |-> task.wcet,
     WCRT_Analytic |-> wcrt, Schedulable |-> (wcrt <= task.deadline)]

\* Mutant: the slice of higher-priority tasks takes in the task itself.
perform_rm_analysisSelf(ts) ==
    LET sorted_tasks == SortedRm(ts)
    IN  [ id \in { ts[i].id : i \in 1..Len(ts) } |->
            LET i == CHOOSE k \in 1..Len(ts) : sorted_tasks[k].id = id
                task == sorted_tasks[i]
                hp_tasks == SubSeq(sorted_tasks, 1, i)
            IN  RmRecord(task, calculate_exact_wcrt_rm(task, hp_tasks)) ]

\* results is a dict keyed by task id, filled in sorted order: a later
\* task with the same id would overwrite an earlier one.
perform_rm_analysis(ts) ==
    LET sorted_tasks == SortedRm(ts)
        Last(id) == CHOOSE i \in 1..Len(ts) :
                        /\ sorted_tasks[i].id = id
                        /\ \A j \in (i+1)..Len(ts) : sorted_tasks[j].id # id
    IN  [ id \in { ts[i].id : i \in 1..Len(ts) } |->
            LET i == Last(id)
                task == sorted_tasks[i]
                hp_tasks == SubSeq(sorted_tasks, 1, i - 1)
            IN  RmRecord(task, calculate_exact_wcrt_rm(task, hp_tasks)) ]

\* perform_dm_analysis is imported by main.py (line 8) but is not defined in
\* analysis.py; it is modelled from the specification: the same driver with
\* the tasks ordered by ascending relative deadline (a stable sort, as the
\* scheduler's own DM ordering), and the record main prints (line 134).
DmRecord(task, wcrt) ==
    [Period |-> task.period, Deadline |-> task.deadline, WCET |-> task.wcet,
     WCRT_Analytic |-> wcrt, Schedulable |-> (wcrt <= task.deadline)]

perform_dm_analysis(ts) ==
    LET sorted_tasks == SortedDm(ts)
        Last(id) == CHOOSE i \in 1..Len(ts) :
                        /\ sorted_tasks[i].id = id
                        /\ \A j \in (i+1)..Len(ts) : sorted_tasks[j].id # id
    IN  [ id \in { ts[i].id : i \in 1..Len(ts) } |->
            LET i == Last(id)
                task == sorted_tasks[i]
                hp_tasks == SubSeq(sorted_tasks, 1, i - 1)
            IN  DmRecord(task, calculate_exact_wcrt_rm(task, hp_tasks)) ]

\* ------------------------------------------------------------ simulation.py
\* Scheduler.__init__, lines 15-17.
Hyperperiod(ts) ==
    IF ts = << >> THEN 0
    ELSE LcmOf([ i \in 1..Len(ts) |-> ts[i].period ])

\* Mutant: no priority is assigned, DM keeps the input priorities like RM.
AssignPrioritiesKeep(ts, alg) == ts

\* Scheduler.__init__, lines 25-29: the DM ordering and priorities 0..n-1.
\* For RM and EDF the copied tasks keep the priorities of the input.
AssignPriorities(ts, alg) ==
    IF alg = "DM"
    THEN LET s == SortedDm(ts)
         IN  [ i \in 1..Len(s) |-> [s[i] EXCEPT !.priority = i - 1] ]
    ELSE ts

get_task(ts, task_id) ==
    ts[CHOOSE i \in 1..Len(ts) :
          /\ ts[i].id = task_id
          /\ \A j \in 1..(i-1) : ts[j].id # task_id]

\* min(queue, key=...): the position of the first element whose key is
\* minimal; keys[i] is the key of the i-th element.
FirstMin(keys) ==
    CHOOSE i \in 1..Len(keys) :
        /\ \A j \in 1..Len(keys) : keys[i] <= keys[j]
        /\ \A j \in 1..(i-1) : keys[j] > keys[i]

\* Mutant: EDF dispatches on the static priority, like RM and DM.
get_active_jobStatic(rq, ts, alg) ==
    IF rq = << >> THEN None
    ELSE Some(FirstMin([ i \in 1..Len(rq) |->
                            get_task(ts, rq[i].task_id).priority ]))

\* Mutant: EDF picks the job that arrived first instead of the one with the
\* earliest absolute deadline.
get_active_jobFifo(rq, ts, alg) ==
    IF rq = << >> THEN None
    ELSE IF alg \in {"RM", "DM"}
    THEN Some(FirstMin([ i \in 1..Len(rq) |->
                            get_task(ts, rq[i].task_id).priority ]))
    ELSE IF alg = "EDF"
    THEN Some(FirstMin([ i \in 1..Len(rq) |-> rq[i].arrival_time ]))
    ELSE None

\* _get_active_job: a reference to a Job object is its position in the
\* ready queue.  Positions of live jobs never shift while a reference to
\* them is held: releases append, and the only job ever removed is the
\* running one, whose reference is dropped in the same step.
get_active_job(rq, ts, alg) ==
    IF rq = << >> THEN None
    ELSE IF alg \in {"RM", "DM"}
    THEN Some(FirstMin([ i \in 1..Len(rq) |->
                            get_task(ts, rq[i].task_id).priority ]))
    ELSE IF alg = "EDF"
    THEN Some(FirstMin([ i \in 1..Len(rq) |-> rq[i].absolute_deadline ]))
    ELSE None

\* Mutant: the release index is the tick itself, not tick / period.
ReleasesIndexTick(ts, t) ==
    LET due == SelectSeq(ts, LAMBDA task : t % task.period = 0)
    IN  [ i \in 1..Len(due) |->
            Job(due[i].id, t, t, t + due[i].deadline, due[i].wcet) ]

\* Mutant: the periodic test is dropped, every task releases at every tick.
ReleasesEveryTick(ts, t) ==
    [ i \in 1..Len(ts) |->
        Job(ts[i].id, t \div ts[i].period, t, t + ts[i].deadline, ts[i].wcet) ]

\* run, lines 62-72: the jobs released at tick t, in task-list order.
Releases(ts, t) ==
    LET due == SelectSeq(ts, LAMBDA task : t % task.period = 0)
    IN  [ i \in 1..Len(due) |->
            Job(due[i].id, t \div due[i].period, t,
                t + due[i].deadline, due[i].wcet) ]

\* next_job != current_job: dataclass equality, field by field.
JobsDiffer(rq, a, b) ==
    IF a = None \/ b = None THEN a # b ELSE rq[a[1]] # rq[b[1]]

\* Mutant: the head of the queue is dropped, whichever job x is.
RemoveFirstHead(rq, x) == Tail(rq)

\* list.remove(x): drops the first element equal to x.
RemoveFirst(rq, x) ==
    LET k == CHOOSE i \in 1..Len(rq) :
                 rq[i] = x /\ \A j \in 1..(i-1) : rq[j] # x
    IN  SubSeq(rq, 1, k - 1) \o SubSeq(rq, k + 1, Len(rq))

\* Mutant: start_time is written on every switch, also for a job that
\* resumes after a preemption.
MarkStartAlways(rq, next_job, switch, t) ==
    IF switch /\ next_job # None
    THEN [rq EXCEPT ![next_job[1]].start_time = t]
    ELSE rq

\* Step 3 of the loop body: start_time is written on a switch to a job that
\* has none yet.
MarkStart(rq, next_job, switch, t) ==
    IF switch /\ next_job # None /\ rq[next_job[1]].start_time = -1
    THEN [rq EXCEPT ![next_job[1]].start_time = t]
    ELSE rq

\* Mutant: the trace is stamped with the end of the tick.
TraceEntryLate(t, cur, rq) ==
    IF cur # None THEN << t + 1, Some(rq[cur[1]].task_id) >>
    ELSE << t + 1, None >>

\* Step 4: the trace entry of tick t: (t, task id) for the running job,
\* (t, None) when the processor idles.
TraceEntry(t, cur, rq) ==
    IF cur # None THEN << t, Some(rq[cur[1]].task_id) >> ELSE << t, None >>

\* Mutant: the finish time is the tick itself, not its end.
FinishTimeEarly(t) == t

\* Step 5: the finish time written when remaining_time reaches 0.
FinishTime(t) == t + 1

\* analyze_results, for one task id.  Sim_Avg_RT is a float quotient in the
\* code; it is kept as the exact fraction <<sum, count>>, and the 0 of a
\* task without completed job as <<0, 1>>.
TaskStats(completed, task_id) ==
    LET jobs == SelectSeq(completed, LAMBDA j : j.task_id = task_id)
        rts == [ i \in 1..Len(jobs) |-> response_time(jobs[i])[1] ]
    IN  IF jobs = << >>
        THEN [Sim_WCRT |-> 0, Sim_Avg_RT |-> << 0, 1 >>, Missed |-> 0]
        ELSE [Sim_WCRT |-> MaxSeq(rts),
              Sim_Avg_RT |-> << SumSeq(rts), Len(jobs) >>,
              Missed |-> Len(SelectSeq(jobs, is_missed))]

analyze_results(ts, completed) ==
    [ id \in { ts[i].id : i \in 1..Len(ts) } |-> TaskStats(completed, id) ]

\* ------------------------------------------------------------ state
VARIABLES
    callerTasks,     \* the caller's list of Task objects
    rm_analysis,     \* result of perform_rm_analysis(tasks)
    dm_analysis,     \* result of perform_dm_analysis(tasks)
    tasks,           \* Scheduler.tasks
    algorithm,       \* Scheduler.algorithm
    hyperperiod,     \* Scheduler.hyperperiod
    time,            \* Scheduler.time
    ready_queue,     \* Scheduler.ready_queue
    history,         \* Scheduler.history
    completed_jobs,  \* Scheduler.completed_jobs
    current_job,     \* run: local current_job (None or a queue position)
    duration_arg,    \* run: the argument duration as passed, None if omitted
    duration,        \* run: local duration
    t,               \* run: the next value of the loop variable t
    stats,           \* result of analyze_results()
    pc,              \* where the caller stands
    w_task,          \* calculate_exact_wcrt_rm: argument task
    w_hp,            \* calculate_exact_wcrt_rm: argument higher_priority_tasks
    R_curr,          \* calculate_exact_wcrt_rm: local R_curr
    w_ret,           \* calculate_exact_wcrt_rm: returned value, None before
    w_pc             \* calculate_exact_wcrt_rm: "loop" or "returned"

callerVars == << callerTasks, rm_analysis, dm_analysis >>
schedVars == << tasks, algorithm, hyperperiod, time, ready_queue, history,
                completed_jobs >>
runVars == << current_job, duration_arg, duration, t >>
wcrtVars == << w_task, w_hp, R_curr, w_ret, w_pc >>
vars == << callerVars, schedVars, runVars, stats, pc, wcrtVars >>

\* ------------------------------------------------------------ the caller
\* The scheduler fields before any Scheduler is built.
NoScheduler ==
    /\ tasks = << >> /\ algorithm = "" /\ hyperperiod = 0 /\ time = 0
    /\ ready_queue = << >> /\ history = << >> /\ completed_jobs = << >>
    /\ current_job = None /\ duration_arg = None /\ duration = 0 /\ t = 0
    /\ stats = << >>

\* The variables of the stepwise calculate_exact_wcrt_rm, unused here.
WcrtIdle ==
    /\ w_task = Task(1, 1, 1, 1, 0) /\ w_hp = << >> /\ R_curr = 0
    /\ w_ret = None /\ w_pc = "idle"

\* The caller holds a task list and has not called anything yet.
Init ==
    /\ callerTasks \in TaskSets
    /\ rm_analysis = << >> /\ dm_analysis = << >>
    /\ NoScheduler
    /\ pc = "start"
    /\ WcrtIdle

\* main, lines 124-134: the analytic part, run once before the simulations.
PerformAnalysis ==
    /\ pc = "start"
    /\ rm_analysis' = perform_rm_analysis(callerTasks)
    /\ dm_analysis' = perform_dm_analysis(callerTasks)
    /\ pc' = "analysed"
    /\ UNCHANGED << callerTasks, schedVars, runVars, stats, wcrtVars >>

\* Mutant: no deepcopy, self.tasks is the caller's list and its Task objects,
\* so the DM sort and the priorities it writes land in the caller's list.
ConstructNoCopy(alg) ==
    /\ pc \in {"analysed", "results"}
    /\ tasks' = AssignPriorities(callerTasks, alg)
    /\ callerTasks' = tasks'
    /\ algorithm' = alg
    /\ time' = 0
    /\ ready_queue' = << >>
    /\ history' = << >>
    /\ completed_jobs' = << >>
    /\ hyperperiod' = Hyperperiod(callerTasks)
    /\ current_job' = None /\ duration_arg' = None /\ duration' = 0
    /\ t' = 0 /\ stats' = << >>
    /\ pc' = "constructed"
    /\ UNCHANGED << rm_analysis, dm_analysis, wcrtVars >>

\* Scheduler(tasks, algorithm): __init__, lines 6-29.  main builds one
\* scheduler after the other from the same list (lines 142, 153, 159), so a
\* new one may be built once the previous run has been analysed.
Construct(alg) ==
    /\ pc \in {"analysed", "results"}
    /\ tasks' = AssignPriorities(callerTasks, alg)
    /\ algorithm' = alg
    /\ time' = 0
    /\ ready_queue' = << >>
    /\ history' = << >>
    /\ completed_jobs' = << >>
    /\ hyperperiod' = Hyperperiod(callerTasks)
    /\ current_job' = None /\ duration_arg' = None /\ duration' = 0
    /\ t' = 0 /\ stats' = << >>
    /\ pc' = "constructed"
    /\ UNCHANGED << callerVars, wcrtVars >>

\* Mutant: an omitted duration is taken as 0 instead of the hyperperiod.
RunBeginNoDefault(arg) ==
    /\ pc = "constructed"
    /\ duration_arg' = arg
    /\ duration' = IF arg = None THEN 0 ELSE arg[1]
    /\ current_job' = None
    /\ t' = 0
    /\ pc' = "running"
    /\ UNCHANGED << callerVars, schedVars, stats, wcrtVars >>

\* run(duration), lines 51-57: the default duration and the loop set-up.
RunBegin(arg) ==
    /\ pc = "constructed"
    /\ duration_arg' = arg
    /\ duration' = IF arg = None THEN hyperperiod ELSE arg[1]
    /\ current_job' = None
    /\ t' = 0
    /\ pc' = "running"
    /\ UNCHANGED << callerVars, schedVars, stats, wcrtVars >>

\* One pass of the for-loop body of run, lines 59-96.  The values of the
\* steps (releases, selection, switch, start stamp) are bound one after the
\* other, as the body computes them.
Tick ==
    /\ pc = "running"
    /\ t < duration
    /\ \E rq1 \in { ready_queue \o Releases(tasks, t) } :
       \E next_job \in { get_active_job(rq1, tasks, algorithm) } :
       \E switch \in { JobsDiffer(rq1, next_job, current_job) } :
       \E rq2 \in { MarkStart(rq1, next_job, switch, t) } :
       \E cur \in { IF switch THEN next_job ELSE current_job } :
           /\ time' = t
           /\ history' = Append(history, TraceEntry(t, cur, rq2))
           /\ IF cur # None
              THEN LET c == cur[1]
                       rq3 == [rq2 EXCEPT ![c].remaining_time = @ - 1]
                       done == [rq3[c] EXCEPT !.finish_time = FinishTime(t)]
                   IN  /\ IF rq3[c].remaining_time = 0
                          THEN /\ completed_jobs' = Append(completed_jobs, done)
                               /\ ready_queue' =
                                      RemoveFirst([rq3 EXCEPT ![c] = done], done)
                               /\ current_job' = None
                          ELSE /\ completed_jobs' = completed_jobs
                               /\ ready_queue' = rq3
                               /\ current_job' = cur
              ELSE /\ ready_queue' = rq2
                   /\ completed_jobs' = completed_jobs
                   /\ current_job' = cur
    /\ t' = t + 1
    /\ UNCHANGED << callerVars, tasks, algorithm, hyperperiod, duration_arg,
                    duration, stats, pc, wcrtVars >>

\* run has returned (line 98): the loop is exhausted.
Returned == pc = "running" /\ t = duration

\* analyze_results(), lines 100-122, called on the finished run.
AnalyzeResults ==
    /\ Returned
    /\ stats' = analyze_results(tasks, completed_jobs)
    /\ pc' = "results"
    /\ UNCHANGED << callerVars, schedVars, runVars, wcrtVars >>

Durations == {None} \cup { Some(d) : d \in 0..MaxDuration }

Next ==
    \/ PerformAnalysis
    \/ \E alg \in Algorithms : Construct(alg)
    \/ \E arg \in Durations : RunBegin(arg)
    \/ Tick
    \/ AnalyzeResults

Spec == Init /\ [][Next]_vars

\* ------------------------------------------------------------ the EDF runs
\* The EDF simulation alone (the calls of main, lines 153-156), on task
\* lists with longer periods and deadlines, handed to Scheduler directly.  _get_active_job does not read the
\* priority under EDF, so it is held fixed.
EdfTasks ==
    [id : TaskIds, wcet : 1..MaxWcet, period : 1..MaxEdfPeriod,
     deadline : 1..MaxEdfPeriod, priority : {0}]

EdfTaskSets ==
    UNION { { ts \in [1..n -> EdfTasks] :
                \A i, j \in 1..n : i # j => ts[i].id # ts[j].id } :
            n \in 0..Cardinality(TaskIds) }

EdfInit ==
    /\ callerTasks \in EdfTaskSets
    /\ rm_analysis = << >> /\ dm_analysis = << >>
    /\ NoScheduler
    /\ pc = "start"
    /\ WcrtIdle

EdfNext ==
    \/ PerformAnalysis
    \/ Construct("EDF")
    \/ \E arg \in Durations : RunBegin(arg)
    \/ Tick
    \/ AnalyzeResults

EdfSpec == EdfInit /\ [][EdfNext]_vars

\* ------------------------------------------------------ the hyperperiod runs
\* Schedulers built on task lists with longer periods, where the least
\* common multiple of two periods can differ from both their maximum and
\* their product.  The hyperperiod and the length of a run read nothing but
\* the periods, so the other fields are held fixed.
HyperTasks ==
    [id : TaskIds, wcet : {1}, period : 1..MaxHyperPeriod,
     deadline : {1}, priority : {0}]

HyperTaskSets ==
    UNION { { ts \in [1..n -> HyperTasks] :
                \A i, j \in 1..n : i # j => ts[i].id # ts[j].id } :
            n \in 0..Cardinality(TaskIds) }

HyperInit ==
    /\ callerTasks \in HyperTaskSets
    /\ rm_analysis = << >> /\ dm_analysis = << >>
    /\ NoScheduler
    /\ pc = "start"
    /\ WcrtIdle

HyperSpec == HyperInit /\ [][Next]_vars

\* ------------------------------------------------ calculate_exact_wcrt_rm, stepwise
\* The arguments: the function reads wcet and deadline of the task and
\* period and wcet of the others, so id and priority are held fixed.
WcrtTasks == { tk \in Tasks : tk.id = 1 /\ tk.priority = 0 }

WcrtLists == UNION { [1..n -> WcrtTasks] : n \in 0..Cardinality(TaskIds) }

\* Entry of the function, line 27: R_curr = task.wcet.
WcrtInit ==
    /\ w_task \in WcrtTasks
    /\ w_hp \in WcrtLists
    /\ R_curr = w_task.wcet
    /\ w_ret = None
    /\ w_pc = "loop"
    /\ callerTasks = << >> /\ rm_analysis = << >> /\ dm_analysis = << >>
    /\ NoScheduler
    /\ pc = "wcrt"

\* Mutant: the convergence test is missing, only the deadline ends the loop.
WcrtStepNoConverge ==
    /\ w_pc = "loop"
    /\ LET R_new == R_next(w_task, w_hp, R_curr)
       IN  IF R_new > w_task.deadline
           THEN /\ w_ret' = Some(R_new) /\ w_pc' = "returned"
                /\ R_curr' = R_curr
           ELSE /\ R_curr' = R_new
                /\ UNCHANGED << w_ret, w_pc >>
    /\ UNCHANGED << callerVars, schedVars, runVars, stats, pc, w_task, w_hp >>

\* One pass of the while-loop, lines 28-41.
WcrtStep ==
    /\ w_pc = "loop"
    /\ LET R_new == R_next(w_task, w_hp, R_curr)
       IN  IF R_new > w_task.deadline
           THEN /\ w_ret' = Some(R_new) /\ w_pc' = "returned"
                /\ R_curr' = R_curr
           ELSE IF R_new = R_curr
           THEN /\ w_ret' = Some(R_new) /\ w_pc' = "returned"
                /\ R_curr' = R_curr
           ELSE /\ R_curr' = R_new
                /\ UNCHANGED << w_ret, w_pc >>
    /\ UNCHANGED << callerVars, schedVars, runVars, stats, pc, w_task, w_hp >>

WcrtNext == WcrtStep

WcrtSpec == WcrtInit /\ [][WcrtNext]_vars

\* The loop is sequential code: a pass that can run does run.
WcrtLive == WcrtSpec /\ WF_vars(WcrtStep)

\* ================================================================ claims
\* The run has gone through its whole duration (analysed or not yet).
Finished == pc \in {"running", "results"} /\ t = duration

\* The run covered exactly one hyperperiod of a non-empty task set.
OneHyperperiod == Finished /\ tasks # << >> /\ duration = hyperperiod

IdleTicks == { k \in 1..Len(history) : history[k][2] = None }

\* Total utilization < 1, in exact arithmetic: over one hyperperiod H the
\* released work sum(wcet * H / period) is less than H.
UtilizationBelowOne(ts) ==
    LET H == Hyperperiod(ts)
    IN  SumSeq([ i \in 1..Len(ts) |->
                    ts[i].wcet * (H \div ts[i].period) ]) < H

AnalyticOf(alg) == IF alg = "RM" THEN rm_analysis ELSE dm_analysis

\* C1: after a one-hyperperiod simulation under RM (DM), the Sim_WCRT that
\* analyze_results reports for a task never exceeds the WCRT_Analytic of the
\* RM (DM) response-time analysis of that task.
C1_SimWcrtWithinAnalytic ==
    (pc = "results" /\ OneHyperperiod /\ algorithm \in {"RM", "DM"}) =>
        \A i \in 1..Len(tasks) :
            stats[tasks[i].id].Sim_WCRT
                <= AnalyticOf(algorithm)[tasks[i].id].WCRT_Analytic

\* C3: a non-empty task set with total utilization < 1, simulated for one
\* hyperperiod under RM, DM or EDF, has at least one idle trace entry.
C3_IdleWhenUnderUtilized ==
    (OneHyperperiod /\ UtilizationBelowOne(tasks)) => IdleTicks # {}

C3_Witness ==
    /\ OneHyperperiod /\ UtilizationBelowOne(tasks)
    /\ Len(tasks) = 2 /\ hyperperiod > 2
    /\ Cardinality(IdleTicks) = 1

\* The number of releases k*period, k >= 0, with k*period + wcet <= d.
ReleasesCompletedBy(task, d) ==
    IF d < task.wcet THEN 0 ELSE (d - task.wcet) \div task.period + 1

\* C4: a single task with wcet <= deadline <= period, run for d ticks:
\* exactly one job is completed per release k*period with
\* k*period + wcet <= d, each with response time wcet, and none is missed.
C4_SingleTask ==
    (Finished /\ Len(tasks) = 1
        /\ tasks[1].wcet <= tasks[1].deadline
        /\ tasks[1].deadline <= tasks[1].period) =>
        LET task == tasks[1]
            n == ReleasesCompletedBy(task, duration)
        IN  /\ Len(completed_jobs) = n
            /\ \A i \in 1..n :
                  /\ completed_jobs[i].task_id = task.id
                  /\ completed_jobs[i].job_id = i - 1
                  /\ completed_jobs[i].arrival_time = (i - 1) * task.period
                  /\ response_time(completed_jobs[i]) = Some(task.wcet)
                  /\ ~is_missed(completed_jobs[i])
            /\ pc = "results" =>
                  /\ stats[task.id].Missed = 0
                  /\ n > 0 => stats[task.id].Sim_WCRT = task.wcet

C4_Witness ==
    /\ pc = "results" /\ Finished /\ Len(tasks) = 1
    /\ tasks[1].wcet = 1 /\ tasks[1].period = 2 /\ tasks[1].deadline = 2
    /\ duration = 3 /\ Len(completed_jobs) = 2
    /\ stats[tasks[1].id].Sim_WCRT = 1

\* C5: the trace of run(d) has one entry per tick 0..d-1, in order, and
\* the entry of tick t is idle exactly when no job is ready after the
\* releases of tick t; otherwise it names the task of the job selected at t.
C5_TraceCoversEveryTick ==
    [][ /\ (t' = t + 1) =>
            LET rq == ready_queue \o Releases(tasks, t)
                sel == get_active_job(rq, tasks, algorithm)
            IN  /\ Len(history') = Len(history) + 1
                /\ history'[Len(history')][1] = t
                /\ (history'[Len(history')][2] = None) <=> (rq = << >>)
                /\ rq # << >> =>
                      history'[Len(history')][2] = Some(rq[sel[1]].task_id)
        /\ (pc' = "running" /\ t' = duration') =>
              /\ Len(history') = duration'
              /\ \A k \in 1..Len(history') : history'[k][1] = k - 1
      ]_vars

C5_Witness ==
    /\ Finished /\ duration = MaxDuration /\ Len(history) = duration
    /\ IdleTicks # {} /\ IdleTicks # 1..Len(history)
    /\ Len(tasks) = 2

\* C6: building and running a Scheduler never changes the caller's task
\* list, in order or in any field, whatever the algorithm; so a Scheduler
\* built for RM or EDF holds the caller's tasks with their input priorities,
\* also when a DM scheduler was built from the same list before.
C6_CallerTasksUntouched ==
    [][ /\ callerTasks' = callerTasks
        /\ (algorithm' \in {"RM", "EDF"}) => tasks' = callerTasks
      ]_vars

\* A finished DM run whose scheduler reordered the tasks and overwrote a
\* priority, the caller's list being a different value.
C6_Witness ==
    /\ pc = "results" /\ algorithm = "DM" /\ Len(tasks) = 2
    /\ tasks[1].id # callerTasks[1].id
    /\ \E i \in 1..2 : \E j \in 1..2 :
          /\ tasks[i].id = callerTasks[j].id
          /\ tasks[i].priority # callerTasks[j].priority

\* C7: calculate_exact_wcrt_rm terminates for every task and every list of
\* higher-priority tasks with positive periods and wcets, and each candidate
\* it computes is at least the candidate before it.
C7_TerminatesMonotone ==
    /\ <>(w_pc = "returned")
    /\ [][ /\ R_curr' >= R_curr
           /\ (w_pc' = "returned") => w_ret'[1] >= R_curr
         ]_vars

\* A call that went through several candidates before it converged at or
\* below the deadline.
C7_Witness ==
    /\ w_pc = "returned" /\ Len(w_hp) = 2
    /\ w_ret[1] <= w_task.deadline
    /\ w_ret[1] > w_task.wcet + 1
    /\ R_curr = w_ret[1]

\* Position j comes before position i in rate-monotonic order: the shorter
\* period, and the smaller id among equal periods.
RmBefore(ts, j, i) ==
    \/ ts[j].period < ts[i].period
    \/ (ts[j].period = ts[i].period /\ ts[j].id < ts[i].id)

\* Position j comes before position i in deadline-monotonic order: the
\* shorter relative deadline, and the list order among equal deadlines.
DmBefore(ts, j, i) ==
    \/ ts[j].deadline < ts[i].deadline
    \/ (ts[j].deadline = ts[i].deadline /\ j < i)

\* The tasks that come before position i under RM and DM, in list order.
RmHigher(ts, i) ==
    LET idx == SelectSeq([ k \in 1..Len(ts) |-> k ],
                         LAMBDA j : RmBefore(ts, j, i))
    IN  [ m \in 1..Len(idx) |-> ts[idx[m]] ]

DmHigher(ts, i) ==
    LET idx == SelectSeq([ k \in 1..Len(ts) |-> k ],
                         LAMBDA j : DmBefore(ts, j, i))
    IN  [ m \in 1..Len(idx) |-> ts[idx[m]] ]

Analysed == pc \in {"analysed", "constructed", "running", "results"}

\* C8: the WCRT of the RM and of the DM response-time analysis is at least
\* the task's wcet, and it is exactly wcet for a task with no
\* higher-priority task.
C8_WcrtAtLeastWcet ==
    Analysed =>
        \A i \in 1..Len(callerTasks) :
            LET task == callerTasks[i]
                others == 1..Len(callerTasks)
            IN  /\ rm_analysis[task.id].WCRT_Analytic >= task.wcet
                /\ dm_analysis[task.id].WCRT_Analytic >= task.wcet
                /\ (\A j \in others : ~RmBefore(callerTasks, j, i))
                      => rm_analysis[task.id].WCRT_Analytic = task.wcet
                /\ (\A j \in others : ~DmBefore(callerTasks, j, i))
                      => dm_analysis[task.id].WCRT_Analytic = task.wcet

\* Two tasks: the higher-priority one gets exactly its wcet, the other one
\* strictly more.
C8_Witness ==
    /\ Analysed /\ Len(callerTasks) = 2
    /\ \E i \in 1..2 : \E j \in 1..2 :
          /\ RmBefore(callerTasks, i, j)
          /\ rm_analysis[callerTasks[i].id].WCRT_Analytic = callerTasks[i].wcet
          /\ rm_analysis[callerTasks[j].id].WCRT_Analytic > callerTasks[j].wcet
          /\ callerTasks[i].wcet > callerTasks[i].deadline

\* C9: the analysis orders the tasks by the static-priority rule (RM: period,
\* then id; DM: relative deadline), computes each task's WCRT against exactly
\* the tasks ordered before it, and returns for every task id a record
\* whose schedulable flag says WCRT <= deadline.
C9_AnalysisByPriorityOrder ==
    Analysed =>
        LET ids == { callerTasks[i].id : i \in 1..Len(callerTasks) }
        IN  /\ DOMAIN rm_analysis = ids
            /\ DOMAIN dm_analysis = ids
            /\ \A i \in 1..Len(callerTasks) :
                  LET task == callerTasks[i]
                      rm == rm_analysis[task.id]
                      dm == dm_analysis[task.id]
                      rmHp == RmHigher(callerTasks, i)
                      dmHp == DmHigher(callerTasks, i)
                  IN  /\ rm.WCRT_Analytic = calculate_exact_wcrt_rm(task, rmHp)
                      /\ rm.Schedulable <=> (rm.WCRT_Analytic <= task.deadline)
                      /\ rm.Period = task.period /\ rm.WCET = task.wcet
                      /\ dm.WCRT_Analytic = calculate_exact_wcrt_rm(task, dmHp)
                      /\ dm.Schedulable <=> (dm.WCRT_Analytic <= task.deadline)
                      /\ dm.Period = task.period /\ dm.WCET = task.wcet

\* Two tasks with equal periods listed against their ids, so that the id
\* breaks the tie, where RM and DM order the tasks differently and one task
\* is schedulable and the other is not.
C9_Witness ==
    /\ Analysed /\ Len(callerTasks) = 2
    /\ callerTasks[1].period = callerTasks[2].period
    /\ callerTasks[1].id > callerTasks[2].id
    /\ callerTasks[1].deadline < callerTasks[2].deadline
    /\ rm_analysis[callerTasks[1].id].WCRT_Analytic > callerTasks[1].wcet
    /\ dm_analysis[callerTasks[1].id].WCRT_Analytic = callerTasks[1].wcet
    /\ rm_analysis[callerTasks[1].id].Schedulable
          # rm_analysis[callerTasks[2].id].Schedulable

\* The completed jobs of a task, as positions in completed_jobs.
CompletedOf(task_id) ==
    { k \in 1..Len(completed_jobs) : completed_jobs[k].task_id = task_id }

Response(k) == completed_jobs[k].finish_time - completed_jobs[k].arrival_time

\* C10: analyze_results reports per task the maximum of finish - arrival
\* over its completed jobs and the number of its completed jobs with
\* finish > absolute deadline; a task without completed job gets 0, 0, 0;
\* jobs left in the ready queue count for nothing.
C10_Statistics ==
    pc = "results" =>
        /\ DOMAIN stats = { tasks[i].id : i \in 1..Len(tasks) }
        /\ \A i \in 1..Len(tasks) :
              LET st == stats[tasks[i].id]
                  J == CompletedOf(tasks[i].id)
              IN  IF J = {}
                  THEN /\ st.Sim_WCRT = 0 /\ st.Missed = 0
                       /\ st.Sim_Avg_RT[1] = 0
                  ELSE /\ \E k \in J : st.Sim_WCRT = Response(k)
                       /\ \A k \in J : st.Sim_WCRT >= Response(k)
                       /\ st.Missed =
                            Cardinality({ k \in J :
                                completed_jobs[k].finish_time
                                    > completed_jobs[k].absolute_deadline })

\* A finished run with a task that never completed a job and still has one
\* in the ready queue past its deadline, and a task with a completed job
\* that missed its deadline.
C10_Witness ==
    /\ pc = "results" /\ Len(tasks) = 2
    /\ \E a \in 1..2 : \E b \in 1..2 :
          /\ CompletedOf(tasks[a].id) = {}
          /\ stats[tasks[a].id].Missed = 0
          /\ \E q \in 1..Len(ready_queue) :
                /\ ready_queue[q].task_id = tasks[a].id
                /\ ready_queue[q].absolute_deadline < t
          /\ stats[tasks[b].id].Missed >= 1
          /\ stats[tasks[b].id].Sim_WCRT >= 2

Built == pc \in {"constructed", "running", "results"}

\* m is a positive multiple of the period of every task of ts.
CommonMultiple(ts, m) ==
    m > 0 /\ \A i \in 1..Len(ts) : m % ts[i].period = 0

\* C11: the hyperperiod of a Scheduler is the least common multiple of the
\* periods of its tasks (12 for periods 4 and 6), and 0 for the empty task
\* set; run() without a duration simulates exactly hyperperiod ticks and
\* run(d) exactly d ticks, with one trace entry per tick; building a
\* Scheduler on the empty task set succeeds, and its run for d ticks ends
\* with d idle trace entries and no completed job.
C11_HyperperiodAndEmptySet ==
    /\ Built =>
          IF tasks = << >> THEN hyperperiod = 0
          ELSE /\ CommonMultiple(tasks, hyperperiod)
               /\ \A m \in 1..(hyperperiod - 1) : ~CommonMultiple(tasks, m)
    /\ (Built /\ Len(tasks) = 2
            /\ tasks[1].period = 4 /\ tasks[2].period = 6) => hyperperiod = 12
    /\ pc \in {"running", "results"} =>
          /\ duration_arg = None => duration = hyperperiod
          /\ duration_arg # None => duration = duration_arg[1]
          /\ t <= duration /\ Len(history) = t
          /\ Finished => Len(history) = duration
    /\ (Finished /\ tasks = << >>) =>
          /\ \A k \in 1..duration : history[k] = << k - 1, None >>
          /\ completed_jobs = << >> /\ ready_queue = << >>

\* run() without a duration on tasks of periods 4 and 6: the hyperperiod is
\* 12, neither the larger period nor the product, and the finished run has
\* 12 trace entries.
C11_Witness ==
    /\ pc = "results" /\ Len(tasks) = 2
    /\ tasks[1].period = 4 /\ tasks[2].period = 6
    /\ duration_arg = None
    /\ hyperperiod = 12 /\ duration = 12 /\ Len(history) = 12

\* The number of releases of a task of period T in a window of length r:
\* the least k with k * T >= r.
ReleasesWithin(r, T) == CHOOSE k \in 0..r : k * T >= r /\ (k - 1) * T < r

\* r solves R = C + sum over the higher-priority tasks of ceil(R/Tj) * Cj.
IsFixedPoint(task, hp, r) ==
    r = task.wcet
          + SumSeq([ j \in 1..Len(hp) |->
                       ReleasesWithin(r, hp[j].period) * hp[j].wcet ])

\* C12: a value R <= deadline returned by calculate_exact_wcrt_rm is the
\* least fixed point, at or above the task's wcet, of
\* R = C + sum ceil(R/Tj) * Cj; and when that equation has no fixed point
\* in wcet..deadline, the value returned is greater than the deadline.
C12_LeastFixedPoint ==
    w_pc = "returned" =>
        LET R == w_ret[1]
        IN  /\ R <= w_task.deadline =>
                  /\ R >= w_task.wcet
                  /\ IsFixedPoint(w_task, w_hp, R)
                  /\ \A r \in w_task.wcet..(R - 1) :
                        ~IsFixedPoint(w_task, w_hp, r)
            /\ (\A r \in w_task.wcet..w_task.deadline :
                    ~IsFixedPoint(w_task, w_hp, r)) => R > w_task.deadline

\* A call with two higher-priority tasks that returned a fixed point at the
\* deadline, above the task's wcet.
C12_Witness ==
    /\ w_pc = "returned" /\ Len(w_hp) = 2
    /\ w_ret[1] = w_task.deadline
    /\ w_ret[1] >= w_task.wcet + w_hp[1].wcet + w_hp[2].wcet
    /\ IsFixedPoint(w_task, w_hp, w_ret[1])

\* At least one tick of the run has been simulated; the last one is tick
\* t - 1 and its trace entry is the last of the history.
Ticked == pc \in {"running", "results"} /\ t >= 1

\* The task that executed in the last tick, None for an idle tick.
RanTask == history[Len(history)][2]

\* The jobs that were ready in the last tick after its releases: those
\* still ready, and the one that completed in that tick.
ReadyAtLastTick ==
    { ready_queue[q] : q \in 1..Len(ready_queue) }
        \cup { completed_jobs[k] : k \in { i \in 1..Len(completed_jobs) :
                                            completed_jobs[i].finish_time = t } }

\* C13: under RM, at every tick, the task of the job that executes has the
\* minimal period among the tasks of all ready jobs, whatever priorities
\* the input carries.
C13_RmRunsShortestPeriod ==
    (Ticked /\ algorithm = "RM" /\ RanTask # None) =>
        \A j \in ReadyAtLastTick :
            get_task(tasks, RanTask[1]).period
                <= get_task(tasks, j.task_id).period

\* C14: a DM scheduler holds its tasks with the distinct priorities
\* 0..n-1 in ascending order of relative deadline, and at every tick of its
\* run the task of the job that executes has the minimal relative deadline
\* among the tasks of all ready jobs, whatever priorities the input carries.
C14_DmRunsShortestDeadline ==
    /\ (Built /\ algorithm = "DM") =>
          \A i \in 1..Len(tasks) :
              /\ tasks[i].priority = i - 1
              /\ \A j \in 1..Len(tasks) :
                    tasks[i].priority < tasks[j].priority
                        => tasks[i].deadline <= tasks[j].deadline
    /\ (Ticked /\ algorithm = "DM" /\ RanTask # None) =>
          \A j \in ReadyAtLastTick :
              get_task(tasks, RanTask[1]).deadline
                  <= get_task(tasks, j.task_id).deadline

\* A DM run whose input priorities invert the deadline order: the task of
\* the shorter deadline has executed while a job of the other one waits.
C14_Witness ==
    /\ Ticked /\ algorithm = "DM" /\ Len(callerTasks) = 2
    /\ \E a \in 1..2 : \E b \in 1..2 :
          /\ callerTasks[a].deadline < callerTasks[b].deadline
          /\ callerTasks[a].priority > callerTasks[b].priority
          /\ RanTask = Some(callerTasks[a].id)
          /\ \E q \in 1..Len(ready_queue) :
                ready_queue[q].task_id = callerTasks[b].id

\* The job that executed in the last tick: the running job, or the job that
\* completed in that tick; None after an idle tick.
RanJob ==
    IF current_job # None THEN Some(ready_queue[current_job[1]])
    ELSE IF completed_jobs # << >>
            /\ completed_jobs[Len(completed_jobs)].finish_time = t
    THEN Some(completed_jobs[Len(completed_jobs)])
    ELSE None

\* C15: under EDF, at every tick with a ready job, the job that executes
\* has the minimal absolute deadline among all ready jobs; so a job that is
\* released with an earlier absolute deadline than the job that ran before
\* executes in the tick of its release.
C15_EdfRunsEarliestDeadline ==
    (Ticked /\ algorithm = "EDF") =>
        /\ (RanJob = None) <=> (ReadyAtLastTick = {})
        /\ RanJob # None =>
              /\ RanTask = Some(RanJob[1].task_id)
              /\ \A j \in ReadyAtLastTick :
                    RanJob[1].absolute_deadline <= j.absolute_deadline

\* A preemption under EDF: the job that executed in the last tick was
\* released in that tick, and a job with a later absolute deadline that had
\* executed before waits unfinished in the ready queue.
C15_Witness ==
    /\ Ticked /\ algorithm = "EDF" /\ RanJob # None
    /\ RanJob[1].arrival_time = t - 1
    /\ \E q \in 1..Len(ready_queue) :
          /\ ready_queue[q].start_time # -1
          /\ ready_queue[q].start_time < t - 1
          /\ ready_queue[q].task_id # RanJob[1].task_id
          /\ ready_queue[q].absolute_deadline > RanJob[1].absolute_deadline
          /\ history[t - 1][2] = Some(ready_queue[q].task_id)

\* All jobs the scheduler holds, ready or completed.
AllJobs ==
    { ready_queue[q] : q \in 1..Len(ready_queue) }
        \cup { completed_jobs[k] : k \in 1..Len(completed_jobs) }

SameJob(a, b) == a.task_id = b.task_id /\ a.job_id = b.job_id

\* The start time and the remaining time a job had before the current tick:
\* those of its entry in the ready queue, and -1 and the wcet of its task
\* for a job that the tick releases.
StartBefore(j) ==
    IF \E q \in 1..Len(ready_queue) : SameJob(ready_queue[q], j)
    THEN ready_queue[CHOOSE q \in 1..Len(ready_queue) :
                        SameJob(ready_queue[q], j)].start_time
    ELSE -1

RemainingBefore(j) ==
    IF \E q \in 1..Len(ready_queue) : SameJob(ready_queue[q], j)
    THEN ready_queue[CHOOSE q \in 1..Len(ready_queue) :
                        SameJob(ready_queue[q], j)].remaining_time
    ELSE get_task(tasks, j.task_id).wcet

\* C16: the start time of a job is -1 as long as the job has not executed,
\* becomes the tick in which the job first executes, and never changes
\* after that; a job that has executed has arrival <= start, and
\* start < finish once it has finished.
C16_StartTimeSetOnce ==
    /\ [](\A j \in AllJobs :
            /\ (j.start_time = -1)
                  <=> (j.remaining_time = get_task(tasks, j.task_id).wcet)
            /\ j.start_time # -1 =>
                  /\ j.arrival_time <= j.start_time /\ j.start_time < t
                  /\ j.finish_time # -1 => j.start_time < j.finish_time)
    /\ [][ (t' = t + 1) =>
             \A k \in 1..Len(ready_queue') + Len(completed_jobs') :
                 LET j == IF k <= Len(ready_queue') THEN ready_queue'[k]
                          ELSE completed_jobs'[k - Len(ready_queue')]
                     old == j \in { completed_jobs[c] :
                                       c \in 1..Len(completed_jobs) }
                     executed == ~old /\ j.remaining_time < RemainingBefore(j)
                 IN  IF old THEN TRUE
                     ELSE IF StartBefore(j) # -1
                     THEN j.start_time = StartBefore(j)
                     ELSE IF executed THEN j.start_time = t
                     ELSE j.start_time = -1
         ]_vars

\* A completed job that waited before it started and was preempted after:
\* it started after its arrival and finished later than start + wcet.
C16_Witness ==
    \E k \in 1..Len(completed_jobs) :
        LET j == completed_jobs[k]
        IN  /\ j.start_time > j.arrival_time
            /\ j.finish_time
                  > j.start_time + get_task(tasks, j.task_id).wcet

\* The number of ticks of the trace in which a task executed.
TicksOf(task_id) ==
    Cardinality({ k \in 1..Len(history) : history[k][2] = Some(task_id) })

\* The execution time the jobs of a task have received: the whole wcet for
\* a completed job, wcet - remaining for a ready one.
ServiceOf(task) ==
    SumSeq([ k \in 1..Len(completed_jobs) |->
               IF completed_jobs[k].task_id = task.id THEN task.wcet ELSE 0 ])
    + SumSeq([ q \in 1..Len(ready_queue) |->
               IF ready_queue[q].task_id = task.id
               THEN task.wcet - ready_queue[q].remaining_time ELSE 0 ])

\* C17: a job completes in the tick in which its executed time reaches its
\* wcet, with finish time tick + 1, and leaves the ready queue for the
\* completed list in that step.  Between ticks every ready job has a
\* remaining time in 1..wcet and no finish time, every completed job has
\* remaining time 0 and a finish time, the trace accounts for the executed
\* time of every task, and no job is held twice.
C17_CompletionBookkeeping ==
    Built =>
        /\ \A q \in 1..Len(ready_queue) :
              /\ ready_queue[q].remaining_time >= 1
              /\ ready_queue[q].remaining_time
                    <= get_task(tasks, ready_queue[q].task_id).wcet
              /\ ready_queue[q].finish_time = -1
        /\ \A k \in 1..Len(completed_jobs) :
              /\ completed_jobs[k].remaining_time = 0
              /\ completed_jobs[k].finish_time >= 1
              /\ completed_jobs[k].finish_time <= t
              /\ history[completed_jobs[k].finish_time]
                    = << completed_jobs[k].finish_time - 1,
                         Some(completed_jobs[k].task_id) >>
              /\ \A m \in 1..(k - 1) :
                    completed_jobs[m].finish_time
                        < completed_jobs[k].finish_time
        /\ \A i \in 1..Len(tasks) : TicksOf(tasks[i].id) = ServiceOf(tasks[i])
        /\ \A q \in 1..Len(ready_queue) : \A k \in 1..Len(completed_jobs) :
              ~SameJob(ready_queue[q], completed_jobs[k])
        /\ \A k, m \in 1..Len(completed_jobs) :
              SameJob(completed_jobs[k], completed_jobs[m]) => k = m
        /\ \A q, r \in 1..Len(ready_queue) :
              SameJob(ready_queue[q], ready_queue[r]) => q = r

\* A job of wcet 2 has just completed, in the last tick, after a tick in
\* which another task ran between its two ticks, while other jobs are
\* ready.
C17_Witness ==
    /\ Ticked /\ ready_queue # << >> /\ Len(completed_jobs) >= 2
    /\ LET j == completed_jobs[Len(completed_jobs)]
       IN  /\ j.finish_time = t
           /\ get_task(tasks, j.task_id).wcet = 2
           /\ j.finish_time > j.start_time + 2

\* The release indices of a task whose release tick k * period lies in the
\* t ticks simulated so far.
ReleasedIndices(task) == { k \in 0..t : k * task.period < t }

\* C18: after the ticks 0..t-1 the scheduler holds, for every task, exactly
\* one job per multiple k * period of its period below t and no other job;
\* that job has release index k, arrival k * period, absolute deadline
\* arrival + relative deadline, and remaining time wcet until it executes;
\* the (task id, release index) pairs are pairwise distinct; and a job is
\* ready for the dispatch of its release tick, so that tick is not idle.
C18_PeriodicReleases ==
    Built =>
        /\ \A j \in AllJobs :
              \E i \in 1..Len(tasks) :
                  /\ tasks[i].id = j.task_id
                  /\ j.job_id \in ReleasedIndices(tasks[i])
                  /\ j.arrival_time = j.job_id * tasks[i].period
                  /\ j.absolute_deadline = j.arrival_time + tasks[i].deadline
                  /\ j.start_time = -1 => j.remaining_time = tasks[i].wcet
        /\ \A i \in 1..Len(tasks) : \A k \in ReleasedIndices(tasks[i]) :
              \E j \in AllJobs : j.task_id = tasks[i].id /\ j.job_id = k
        /\ Len(ready_queue) + Len(completed_jobs)
              = SumSeq([ i \in 1..Len(tasks) |->
                           Cardinality(ReleasedIndices(tasks[i])) ])
        /\ (Ticked /\ \E j \in AllJobs : j.arrival_time = t - 1)
              => RanTask # None

\* In the last tick one task released its second job and the other task
\* released none; the new job executed in that tick.
C18_Witness ==
    /\ Ticked /\ Len(tasks) = 2 /\ RanJob # None
    /\ RanJob[1].job_id = 1 /\ RanJob[1].arrival_time = t - 1
    /\ t - 1 >= 2
    /\ \E i \in 1..2 :
          /\ tasks[i].id # RanJob[1].task_id
          /\ (t - 1) % tasks[i].period # 0
          /\ \E j \in AllJobs : j.task_id = tasks[i].id

\* Every task has deadline <= period.
Constrained == \A i \in 1..Len(tasks) : tasks[i].deadline <= tasks[i].period

\* No job has missed its deadline so far: the completed jobs finished in
\* time, and the deadline of every ready job is still ahead.
NoJobLate ==
    /\ \A k \in 1..Len(completed_jobs) :
          completed_jobs[k].finish_time <= completed_jobs[k].absolute_deadline
    /\ \A q \in 1..Len(ready_queue) : ready_queue[q].absolute_deadline > t

\* The ready queue as the dispatch of the next tick sees it.
ReadyAtNextTick ==
    IF pc = "running" /\ t < duration
    THEN ready_queue \o Releases(tasks, t) ELSE ready_queue

\* C19: as long as every task has deadline <= period and no job has missed
\* its deadline, the ready queue holds at most one job of each task, between
\* ticks and after the releases of a tick; and whenever two jobs of one task
\* are ready together, the older one was still unfinished at the next
\* release of its task.
C19_OneReadyJobPerTask ==
    Built =>
        /\ (Constrained /\ NoJobLate) =>
              \A p, q \in 1..Len(ReadyAtNextTick) :
                  ReadyAtNextTick[p].task_id = ReadyAtNextTick[q].task_id
                      => p = q
        /\ \A p, q \in 1..Len(ReadyAtNextTick) :
              (p < q /\ ReadyAtNextTick[p].task_id = ReadyAtNextTick[q].task_id)
                  => /\ ReadyAtNextTick[p].remaining_time >= 1
                     /\ ReadyAtNextTick[p].finish_time = -1
                     /\ ReadyAtNextTick[p].arrival_time
                           + get_task(tasks, ReadyAtNextTick[p].task_id).period
                              <= ReadyAtNextTick[q].arrival_time

\* Two tasks with deadline <= period; a job has completed exactly at its
\* deadline, which is the next release of its task, and the tick to come
\* releases that task's next job next to a waiting job of the other task.
C19_Witness ==
    /\ pc = "running" /\ t < duration /\ Len(tasks) = 2
    /\ Constrained /\ NoJobLate
    /\ ready_queue # << >>
    /\ \E k \in 1..Len(completed_jobs) :
          /\ completed_jobs[k].finish_time = t
          /\ completed_jobs[k].absolute_deadline = t
          /\ \E r \in 1..Len(ReadyAtNextTick) :
                /\ ReadyAtNextTick[r].task_id = completed_jobs[k].task_id
                /\ ReadyAtNextTick[r].arrival_time = t

\* Every task has deadline = period.
ImplicitDeadlines ==
    \A i \in 1..Len(tasks) : tasks[i].deadline = tasks[i].period

\* Total utilization <= 1, in exact arithmetic: the work released in one
\* hyperperiod H, sum(wcet * H / period), is at most H.
UtilizationAtMostOne(ts) ==
    LET H == Hyperperiod(ts)
    IN  SumSeq([ i \in 1..Len(ts) |->
                    ts[i].wcet * (H \div ts[i].period) ]) <= H

\* C20: an EDF run over one hyperperiod of a task set with deadline = period
\* for every task and total utilization <= 1 completes every released job
\* no later than its absolute deadline: the ready queue is empty when the
\* run ends, and analyze_results reports 0 missed jobs for every task.
C20_EdfMeetsAllDeadlines ==
    (OneHyperperiod /\ algorithm = "EDF"
        /\ ImplicitDeadlines /\ UtilizationAtMostOne(tasks)) =>
        /\ ready_queue = << >>
        /\ \A k \in 1..Len(completed_jobs) :
              completed_jobs[k].finish_time
                  <= completed_jobs[k].absolute_deadline
        /\ \A i \in 1..Len(tasks) :
              Cardinality(CompletedOf(tasks[i].id))
                  = hyperperiod \div tasks[i].period
        /\ pc = "results" =>
              \A i \in 1..Len(tasks) : stats[tasks[i].id].Missed = 0

\* A fully loaded set of two tasks with different periods: utilization
\* exactly 1, no idle tick, and the task of the longer period, listed
\* first, finished a job of wcet 2 after being made to wait.
C20_Witness ==
    /\ pc = "results" /\ OneHyperperiod /\ algorithm = "EDF"
    /\ ImplicitDeadlines /\ UtilizationAtMostOne(tasks)
    /\ Len(tasks) = 2 /\ IdleTicks = {}
    /\ tasks[1].period > tasks[2].period /\ tasks[1].wcet = 2
    /\ \E k \in CompletedOf(tasks[1].id) :
          completed_jobs[k].start_time > completed_jobs[k].arrival_time
    /\ stats[tasks[1].id].Missed = 0 /\ stats[tasks[2].id].Missed = 0

====
